---- MODULE Spec2Model ----
(***************************************************************************)
(* Model of apis/mattermost/v1beta1/mattermost_utils.go: defaulting of a   *)
(* Mattermost custom resource (SetDefaults), the resolved ingress view,    *)
(* the image reference, the derived label maps and the container lookup.   *)
(*                                                                         *)
(* Representation.                                                         *)
(*  - A Go string whose content the code inspects or builds (Image,        *)
(*    Version, ingress host, TLS secret) is a sequence of one-character    *)
(*    strings; "" is << >>.                                                *)
(*  - A Go string the code only copies or compares as a whole (label keys  *)
(*    and values, names, the pull policy, sizes) is a TLA+ string.         *)
(*  - A Go pointer is Nil (<< >>) or a one-element sequence <<v>>.         *)
(*  - A Go map[string]string is a function from its keys to its values;    *)
(*    the nil and the empty map are both the empty function.               *)
(***************************************************************************)
EXTENDS Naturals, Sequences, FiniteSets

VARIABLES mm, err, calls, old, oldErr, ret

vars == <<mm, err, calls, old, oldErr, ret>>

\* ------------------------------------------------------------- bounds
\* Number of reconcile passes (calls of SetDefaults) explored.
MaxCalls == 2
\* Longest container list explored.
MaxContainers == 3

\* ---------------------------------------------------------- constants
Nil == << >>
EmptyStr == << >>

DefaultMattermostImage ==
  <<"m", "a", "t", "t", "e", "r", "m", "o", "s", "t", "/", "m", "a", "t", "t",
    "e", "r", "m", "o", "s", "t", "-", "e", "n", "t", "e", "r", "p", "r", "i",
    "s", "e", "-", "e", "d", "i", "t", "i", "o", "n">>
DefaultMattermostVersion == <<"5", ".", "3", "7", ".", "1">>
DefaultMattermostDatabaseType == "mysql"
DefaultFilestoreStorageSize == "50Gi"
DefaultStorageSize == "50Gi"
DefaultPullPolicy == "IfNotPresent"
ClusterLabel == "installation.mattermost.com/installation"
ClusterResourceLabel == "installation.mattermost.com/resource"
MattermostAppContainerName == "mattermost"

ErrNil == "nil"
ErrIngressHost == "ingress.host required, but not set"

\* ------------------------------------------------------ string library
\* strings.Index(s, substr) >= 0, scanning the start positions left to right.
RECURSIVE ContainsFrom(_, _, _)
ContainsFrom(s, substr, i) ==
  IF i + Len(substr) - 1 > Len(s) THEN FALSE
  ELSE IF SubSeq(s, i, i + Len(substr) - 1) = substr THEN TRUE
  ELSE ContainsFrom(s, substr, i + 1)

\* Mutant: strings.HasPrefix in place of strings.Contains.
HasPrefixOnly(s, substr) ==
  Len(substr) <= Len(s) /\ SubSeq(s, 1, Len(substr)) = substr

Contains(s, substr) == ContainsFrom(s, substr, 1)

\* strings.ReplaceAll(s, old, new) for a one-character old: the result is
\* built left to right, every occurrence replaced.
RECURSIVE ReplaceN(_, _, _, _)
ReplaceN(s, o, n, k) ==
  IF s = << >> THEN << >>
  ELSE IF Head(s) = o /\ k > 0
       THEN <<n>> \o ReplaceN(Tail(s), o, n, k - 1)
       ELSE <<Head(s)>> \o ReplaceN(Tail(s), o, n, k)

\* Mutant: strings.Replace(s, old, new, 1) in place of strings.ReplaceAll.
ReplaceFirst(s, o, n) == ReplaceN(s, o, n, 1)

ReplaceAll(s, o, n) == ReplaceN(s, o, n, Len(s))

\* --------------------------------------------------------- map library
\* l[k] = v
MapSet(l, k, v) == [x \in (DOMAIN l) \cup {k} |-> IF x = k THEN v ELSE l[x]]

\* for k, v := range r { l[k] = v }
RECURSIVE RangeAssign(_, _, _)
RangeAssign(l, r, keys) ==
  IF keys = {} THEN l
  ELSE LET k == CHOOSE x \in keys : TRUE
       IN RangeAssign(MapSet(l, k, r[k]), r, keys \ {k})

\* ------------------------------------------------------------ ingress
IngressEnabled(m) ==
  IF m.Spec.Ingress # Nil THEN m.Spec.Ingress[1].Enabled ELSE TRUE

\* Mutant: an empty structured host falls back to the legacy IngressName.
GetIngressHostFallback(m) ==
  IF m.Spec.Ingress = Nil \/ m.Spec.Ingress[1].Host = EmptyStr
  THEN m.Spec.IngressName
  ELSE m.Spec.Ingress[1].Host

GetIngressHost(m) ==
  IF m.Spec.Ingress = Nil THEN m.Spec.IngressName ELSE m.Spec.Ingress[1].Host

GetIngresAnnotations(m) ==
  IF m.Spec.Ingress = Nil THEN m.Spec.IngressAnnotations
  ELSE m.Spec.Ingress[1].Annotations

defaultTLSSecret(m) ==
  ReplaceAll(GetIngressHost(m), ".", "-") \o <<"-", "t", "l", "s", "-", "c", "e", "r", "t">>

\* Mutant: the legacy flag is consulted before the structured object.
GetIngressTLSSecretLegacyFirst(m) ==
  IF m.Spec.UseIngressTLS /\ (m.Spec.Ingress = Nil \/ m.Spec.Ingress[1].TLSSecret = EmptyStr)
  THEN defaultTLSSecret(m)
  ELSE IF m.Spec.Ingress # Nil THEN m.Spec.Ingress[1].TLSSecret
  ELSE EmptyStr

GetIngressTLSSecret(m) ==
  IF m.Spec.Ingress # Nil THEN m.Spec.Ingress[1].TLSSecret
  ELSE IF m.Spec.UseIngressTLS THEN defaultTLSSecret(m)
  ELSE EmptyStr

\* ----------------------------------------------------------- sub-specs
FileStoreSetDefaults(fs) ==
  IF fs.StorageSize = "" THEN [fs EXCEPT !.StorageSize = DefaultFilestoreStorageSize]
  ELSE fs

DatabaseSetDefaults(db) ==
  LET d1 == IF db.Type = "" THEN [db EXCEPT !.Type = DefaultMattermostDatabaseType] ELSE db
  IN IF d1.StorageSize = "" THEN [d1 EXCEPT !.StorageSize = DefaultStorageSize] ELSE d1

\* ---------------------------------------------------------- SetDefaults
\* Mutant: the pull policy is defaulted first, and only for a spec that
\* already names an image.
ApplyDefaultsPolicyBeforeImage(m) ==
  LET s1 == IF m.Spec.ImagePullPolicy = "" /\ m.Spec.Image # EmptyStr
            THEN [m.Spec EXCEPT !.ImagePullPolicy = DefaultPullPolicy] ELSE m.Spec
      s2 == IF s1.Image = EmptyStr
            THEN [s1 EXCEPT !.Image = DefaultMattermostImage] ELSE s1
      s3 == IF s2.Version = EmptyStr
            THEN [s2 EXCEPT !.Version = DefaultMattermostVersion] ELSE s2
      s4 == [s3 EXCEPT !.FileStore = FileStoreSetDefaults(s3.FileStore)]
      s5 == [s4 EXCEPT !.Database = DatabaseSetDefaults(s4.Database)]
  IN [m EXCEPT !.Spec = s5]

\* Mutant: Version is assigned its default without the emptiness test.
ApplyDefaultsOverwriteVersion(m) ==
  LET s1 == IF m.Spec.Image = EmptyStr
            THEN [m.Spec EXCEPT !.Image = DefaultMattermostImage] ELSE m.Spec
      s2 == [s1 EXCEPT !.Version = DefaultMattermostVersion]
      s3 == IF s2.ImagePullPolicy = ""
            THEN [s2 EXCEPT !.ImagePullPolicy = DefaultPullPolicy] ELSE s2
      s4 == [s3 EXCEPT !.FileStore = FileStoreSetDefaults(s3.FileStore)]
      s5 == [s4 EXCEPT !.Database = DatabaseSetDefaults(s4.Database)]
  IN [m EXCEPT !.Spec = s5]

\* The spec after the defaulting statements (lines 51-62), without the
\* ingress check.
ApplyDefaults(m) ==
  LET s1 == IF m.Spec.Image = EmptyStr
            THEN [m.Spec EXCEPT !.Image = DefaultMattermostImage] ELSE m.Spec
      s2 == IF s1.Version = EmptyStr
            THEN [s1 EXCEPT !.Version = DefaultMattermostVersion] ELSE s1
      s3 == IF s2.ImagePullPolicy = ""
            THEN [s2 EXCEPT !.ImagePullPolicy = DefaultPullPolicy] ELSE s2
      s4 == [s3 EXCEPT !.FileStore = FileStoreSetDefaults(s3.FileStore)]
      s5 == [s4 EXCEPT !.Database = DatabaseSetDefaults(s4.Database)]
  IN [m EXCEPT !.Spec = s5]

\* Mutant: the ingress host is checked after the defaults are applied.
SetDefaultsCheckLast(m) ==
  [mm |-> ApplyDefaults(m),
   err |-> IF IngressEnabled(m) /\ GetIngressHost(m) = EmptyStr
           THEN ErrIngressHost ELSE ErrNil]

\* The result of mm.SetDefaults(): the receiver after the call and the error.
SetDefaults(m) ==
  IF IngressEnabled(m) /\ GetIngressHost(m) = EmptyStr
  THEN [mm |-> m, err |-> ErrIngressHost]
  ELSE [mm |-> ApplyDefaults(m), err |-> ErrNil]

\* ----------------------------------------------------------- image name
GetImageName(m) ==
  IF Contains(m.Spec.Version, <<"s", "h", "a", "2", "5", "6", ":">>)
  THEN m.Spec.Image \o <<"@">> \o m.Spec.Version
  ELSE m.Spec.Image \o <<":">> \o m.Spec.Version

\* --------------------------------------------------------------- labels
MattermostResourceLabels(name) == [k \in {ClusterResourceLabel} |-> name]

\* Mutant: the selector also carries the resource's custom labels.
MattermostSelectorLabelsWithCustom(name) ==
  LET l0 == MattermostResourceLabels(name)
      l1 == MapSet(l0, ClusterLabel, name)
      l2 == MapSet(l1, "app", MattermostAppContainerName)
  IN RangeAssign(l2, mm.Spec.ResourceLabels, DOMAIN mm.Spec.ResourceLabels)

MattermostSelectorLabels(name) ==
  LET l0 == MattermostResourceLabels(name)
      l1 == MapSet(l0, ClusterLabel, name)
  IN MapSet(l1, "app", MattermostAppContainerName)

\* Mutant: the custom labels are laid down first, the reserved keys last.
MattermostLabelsReservedLast(m, name) ==
  LET l0 == RangeAssign(MattermostResourceLabels(name), m.Spec.ResourceLabels,
                        DOMAIN m.Spec.ResourceLabels)
      l1 == MapSet(l0, ClusterResourceLabel, name)
      l2 == MapSet(l1, ClusterLabel, name)
  IN MapSet(l2, "app", MattermostAppContainerName)

MattermostLabels(m, name) ==
  LET l0 == MattermostResourceLabels(name)
      l1 == MapSet(l0, ClusterLabel, name)
      l2 == MapSet(l1, "app", MattermostAppContainerName)
  IN RangeAssign(l2, m.Spec.ResourceLabels, DOMAIN m.Spec.ResourceLabels)

\* ----------------------------------------------------------- containers
\* The range loop of getContainerByName from index i on: the loop variable
\* holds a copy of containers[i], and the pointer returned is to that copy.
RECURSIVE ContainerScan(_, _, _)
ContainerScan(containers, containerName, i) ==
  IF i > Len(containers) THEN Nil
  ELSE IF containers[i].Name = containerName THEN <<containers[i]>>
  ELSE ContainerScan(containers, containerName, i + 1)

\* Mutant: the pointer to the loop variable is kept and the loop runs on, so
\* a match yields the last container iterated.
getContainerByNameLoopVarAlias(containers, containerName) ==
  IF ContainerScan(containers, containerName, 1) = Nil THEN Nil
  ELSE <<containers[Len(containers)]>>

getContainerByName(containers, containerName) ==
  ContainerScan(containers, containerName, 1)

getDeploymentContainerByName(deployment, containerName) ==
  getContainerByName(deployment.Spec.Template.Spec.Containers, containerName)

GetMattermostAppContainerFromDeployment(deployment) ==
  getDeploymentContainerByName(deployment, MattermostAppContainerName)

GetMattermostAppContainer(containers) ==
  getContainerByName(containers, MattermostAppContainerName)

\* --------------------------------------------------------------- inputs
Images == {EmptyStr, <<"i", "m", "g">>}

Versions ==
  {EmptyStr,
   <<"s", "h", "a", "2", "5", "6", ":", "a", "b">>,
   <<"x", "s", "h", "a", "2", "5", "6", ":">>,
   <<"s", "h", "a", "2", "5", "6">>}

PullPolicies == {"", "Always"}

IngressHosts == {EmptyStr, <<"a", ".", "b">>}

LegacyHosts ==
  {EmptyStr,
   <<"c", "h", "a", "t", ".", "e", "x", "a", "m", "p", "l", "e", ".", "c", "o", "m">>}

IngressAnnotationMaps ==
  {<< >>, [k \in {"kubernetes.io/ingress.class"} |-> "nginx"]}

LegacyAnnotationMaps == {<< >>, [k \in {"legacy"} |-> "yes"]}

TLSSecrets == {EmptyStr, <<"m", "y", "-", "t", "l", "s">>}

ResourceLabelMaps ==
  {<< >>,
   [k \in {"app"} |-> "custom"],
   [k \in {"team", ClusterLabel} |-> IF k = "team" THEN "x" ELSE "other"]}

FileStores == [StorageSize : {"", "10Gi"}]

Databases == {[Type |-> "", StorageSize |-> ""]}

Names == {"team-a", "mm"}

Ingresses ==
  {Nil} \cup
  {<<i>> : i \in [Enabled : BOOLEAN, Host : IngressHosts,
                  Annotations : IngressAnnotationMaps, TLSSecret : TLSSecrets]}

MattermostSpecs ==
  [Image : Images, Version : Versions, ImagePullPolicy : PullPolicies,
   Ingress : Ingresses, IngressName : LegacyHosts,
   IngressAnnotations : LegacyAnnotationMaps, UseIngressTLS : BOOLEAN,
   ResourceLabels : ResourceLabelMaps, FileStore : FileStores,
   Database : Databases]

Mattermosts == [Spec : MattermostSpecs]

ContainerSet == [Name : {MattermostAppContainerName, "sidecar"}, Image : {"v1", "v2"}]

RECURSIVE SeqsUpTo(_, _)
SeqsUpTo(S, n) ==
  IF n = 0 THEN {<< >>}
  ELSE LET shorter == SeqsUpTo(S, n - 1)
       IN shorter \cup {Append(s, x) : s \in shorter, x \in S}

ContainerLists == SeqsUpTo(ContainerSet, MaxContainers)

ContainerNames == {MattermostAppContainerName, "sidecar", "absent"}

DeploymentOf(containers) ==
  [Spec |-> [Template |-> [Spec |-> [Containers |-> containers]]]]

\* ---------------------------------------------------------------- state
\* mm      the Mattermost resource the reconciler holds
\* err     the error returned by the latest SetDefaults call
\* calls   the number of SetDefaults calls made so far
\* old     mm as it was before the latest SetDefaults call
\* oldErr  err as it was before the latest SetDefaults call
\* ret     the latest operation applied, its arguments and its result
Init ==
  /\ mm \in Mattermosts
  /\ err = ErrNil
  /\ calls = 0
  /\ old = mm
  /\ oldErr = ErrNil
  /\ ret = [op |-> "none"]

Frame == UNCHANGED <<mm, err, calls, old, oldErr>>

CallSetDefaults ==
  /\ calls < MaxCalls
  /\ LET r == SetDefaults(mm)
     IN /\ mm' = r.mm
        /\ err' = r.err
        /\ ret' = [op |-> "SetDefaults", val |-> r.err]
  /\ old' = mm
  /\ oldErr' = err
  /\ calls' = calls + 1

CallIngressEnabled ==
  /\ ret' = [op |-> "IngressEnabled", val |-> IngressEnabled(mm)]
  /\ Frame

CallGetIngressHost ==
  /\ ret' = [op |-> "GetIngressHost", val |-> GetIngressHost(mm)]
  /\ Frame

CallGetIngresAnnotations ==
  /\ ret' = [op |-> "GetIngresAnnotations", val |-> GetIngresAnnotations(mm)]
  /\ Frame

CallGetIngressTLSSecret ==
  /\ ret' = [op |-> "GetIngressTLSSecret", val |-> GetIngressTLSSecret(mm)]
  /\ Frame

CallGetImageName ==
  /\ ret' = [op |-> "GetImageName", val |-> GetImageName(mm)]
  /\ Frame

CallMattermostSelectorLabels ==
  /\ \E name \in Names :
       ret' = [op |-> "MattermostSelectorLabels", name |-> name,
               val |-> MattermostSelectorLabels(name)]
  /\ Frame

CallMattermostLabels ==
  /\ \E name \in Names :
       ret' = [op |-> "MattermostLabels", name |-> name,
               val |-> MattermostLabels(mm, name)]
  /\ Frame

Next ==
  \/ CallSetDefaults
  \/ CallIngressEnabled
  \/ CallGetIngressHost
  \/ CallGetIngresAnnotations
  \/ CallGetIngressTLSSecret
  \/ CallGetImageName
  \/ CallMattermostSelectorLabels
  \/ CallMattermostLabels

Spec == Init /\ [][Next]_vars

\* ------------------------------------------------- container inspection
\* The container lookups read no field of mm: they are explored from one
\* resolved resource, over every container list and name.
ResolvedMattermost ==
  [Spec |-> [Image |-> DefaultMattermostImage, Version |-> DefaultMattermostVersion,
             ImagePullPolicy |-> DefaultPullPolicy, Ingress |-> Nil,
             IngressName |-> <<"a", ".", "b">>, IngressAnnotations |-> << >>,
             UseIngressTLS |-> FALSE, ResourceLabels |-> << >>,
             FileStore |-> [StorageSize |-> DefaultFilestoreStorageSize],
             Database |-> [Type |-> DefaultMattermostDatabaseType,
                           StorageSize |-> DefaultStorageSize]]]

InitContainers ==
  /\ mm = ResolvedMattermost
  /\ err = ErrNil
  /\ calls = 0
  /\ old = mm
  /\ oldErr = ErrNil
  /\ ret = [op |-> "none"]

CallGetContainerByName ==
  /\ \E containers \in ContainerLists, containerName \in ContainerNames :
       ret' = [op |-> "getContainerByName", containers |-> containers,
               containerName |-> containerName,
               val |-> getContainerByName(containers, containerName)]
  /\ Frame

CallGetDeploymentContainerByName ==
  /\ \E containers \in ContainerLists, containerName \in ContainerNames :
       LET deployment == DeploymentOf(containers)
       IN ret' = [op |-> "getDeploymentContainerByName", deployment |-> deployment,
                  containerName |-> containerName,
                  val |-> getDeploymentContainerByName(deployment, containerName)]
  /\ Frame

CallGetMattermostAppContainer ==
  /\ \E containers \in ContainerLists :
       ret' = [op |-> "GetMattermostAppContainer", containers |-> containers,
               val |-> GetMattermostAppContainer(containers)]
  /\ Frame

CallGetMattermostAppContainerFromDeployment ==
  /\ \E containers \in ContainerLists :
       LET deployment == DeploymentOf(containers)
       IN ret' = [op |-> "GetMattermostAppContainerFromDeployment",
                  deployment |-> deployment,
                  val |-> GetMattermostAppContainerFromDeployment(deployment)]
  /\ Frame

NextContainers ==
  \/ CallGetContainerByName
  \/ CallGetDeploymentContainerByName
  \/ CallGetMattermostAppContainer
  \/ CallGetMattermostAppContainerFromDeployment

SpecContainers == InitContainers /\ [][NextContainers]_vars

\* =============================================================== claims
\* Literal values the claims are stated with.
LitEnterpriseImage ==
  <<"m", "a", "t", "t", "e", "r", "m", "o", "s", "t", "/", "m", "a", "t", "t",
    "e", "r", "m", "o", "s", "t", "-", "e", "n", "t", "e", "r", "p", "r", "i",
    "s", "e", "-", "e", "d", "i", "t", "i", "o", "n">>
LitVersion == <<"5", ".", "3", "7", ".", "1">>
LitChatHost ==
  <<"c", "h", "a", "t", ".", "e", "x", "a", "m", "p", "l", "e", ".", "c", "o", "m">>
LitChatSecret ==
  <<"c", "h", "a", "t", "-", "e", "x", "a", "m", "p", "l", "e", "-", "c", "o", "m",
    "-", "t", "l", "s", "-", "c", "e", "r", "t">>
LitSha == <<"s", "h", "a", "2", "5", "6", ":">>
LitTlsCert == <<"-", "t", "l", "s", "-", "c", "e", "r", "t">>

\* A SetDefaults call has been made: old is its input, mm and err its result.
Called == calls >= 1

\* Ingress is enabled and the host the precedence rule resolves is empty,
\* read off the raw fields.
HostRequiredButEmpty(m) ==
  \/ m.Spec.Ingress = Nil /\ m.Spec.IngressName = EmptyStr
  \/ /\ m.Spec.Ingress # Nil
     /\ m.Spec.Ingress[1].Enabled
     /\ m.Spec.Ingress[1].Host = EmptyStr

\* C1: SetDefaults returns an error if and only if ingress is enabled
\* (Ingress present with Enabled, or Ingress absent) and the host resolved by
\* precedence (Ingress.Host when present, IngressName when absent) is empty;
\* the only error is the ingress-host error.
C1_ErrorIffHostMissing ==
  Called =>
    /\ err \in {ErrNil, ErrIngressHost}
    /\ (err = ErrIngressHost) <=> HostRequiredButEmpty(old)
    /\ (old.Spec.Ingress # Nil /\ old.Spec.Ingress[1].Enabled
          /\ old.Spec.Ingress[1].Host = EmptyStr) => err # ErrNil
    /\ (old.Spec.Ingress # Nil /\ ~old.Spec.Ingress[1].Enabled) => err = ErrNil

\* C1 witness: Ingress={Enabled:true, Host:""} with a non-empty legacy
\* IngressName was passed to SetDefaults, which failed.
C1_Witness ==
  /\ ret.op = "SetDefaults"
  /\ old.Spec.Ingress # Nil
  /\ old.Spec.Ingress[1].Enabled
  /\ old.Spec.Ingress[1].Host = EmptyStr
  /\ old.Spec.IngressName # EmptyStr
  /\ err = ErrIngressHost

\* C2: once SetDefaults has succeeded, every further call succeeds and leaves
\* every field of the spec as the previous call left it.
C2_Idempotent ==
  (calls >= 2 /\ oldErr = ErrNil) => (err = ErrNil /\ mm = old)

\* C2 witness: a second call was made on a spec whose first call filled in
\* the defaults.
C2_Witness ==
  /\ ret.op = "SetDefaults"
  /\ calls >= 2
  /\ oldErr = ErrNil
  /\ err = ErrNil
  /\ mm.Spec.Image = LitEnterpriseImage
  /\ mm.Spec.Version = LitVersion
  /\ mm.Spec.ImagePullPolicy = "IfNotPresent"

\* C3: with the structured Ingress object present, IngressEnabled,
\* GetIngressHost, GetIngresAnnotations and GetIngressTLSSecret return its
\* Enabled, Host, Annotations and TLSSecret, whatever the legacy fields hold.
C3_StructuredIngressAuthoritative ==
  mm.Spec.Ingress # Nil =>
    /\ ret.op = "IngressEnabled" => ret.val = mm.Spec.Ingress[1].Enabled
    /\ ret.op = "GetIngressHost" => ret.val = mm.Spec.Ingress[1].Host
    /\ ret.op = "GetIngresAnnotations" => ret.val = mm.Spec.Ingress[1].Annotations
    /\ ret.op = "GetIngressTLSSecret" => ret.val = mm.Spec.Ingress[1].TLSSecret

\* C3 witness: an empty Ingress.TLSSecret was resolved while the legacy
\* UseIngressTLS flag is set and the legacy host is not empty.
C3_Witness ==
  /\ ret.op = "GetIngressTLSSecret"
  /\ mm.Spec.Ingress # Nil
  /\ mm.Spec.Ingress[1].TLSSecret = EmptyStr
  /\ mm.Spec.UseIngressTLS
  /\ mm.Spec.IngressName # EmptyStr
  /\ ret.val = EmptyStr

\* host with every "." replaced by "-", position by position.
Dashed(host) == [i \in 1..Len(host) |-> IF host[i] = "." THEN "-" ELSE host[i]]

\* C4: with the Ingress object absent, ingress is enabled, the host is
\* IngressName, the annotations are IngressAnnotations, and the TLS secret is
\* empty without UseIngressTLS and otherwise the legacy host with every "."
\* replaced by "-" followed by "-tls-cert".
C4_LegacyIngressFallback ==
  mm.Spec.Ingress = Nil =>
    /\ ret.op = "IngressEnabled" => ret.val = TRUE
    /\ ret.op = "GetIngressHost" => ret.val = mm.Spec.IngressName
    /\ ret.op = "GetIngresAnnotations" => ret.val = mm.Spec.IngressAnnotations
    /\ (ret.op = "GetIngressTLSSecret" /\ ~mm.Spec.UseIngressTLS) => ret.val = EmptyStr
    /\ (ret.op = "GetIngressTLSSecret" /\ mm.Spec.UseIngressTLS) =>
         /\ ret.val = Dashed(mm.Spec.IngressName) \o LitTlsCert
         /\ mm.Spec.IngressName = LitChatHost => ret.val = LitChatSecret

\* C4 witness: the TLS secret of legacy host chat.example.com was resolved
\* with UseIngressTLS set.
C4_Witness ==
  /\ ret.op = "GetIngressTLSSecret"
  /\ mm.Spec.Ingress = Nil
  /\ mm.Spec.UseIngressTLS
  /\ mm.Spec.IngressName = LitChatHost
  /\ ret.val = LitChatSecret

\* C5: after a successful SetDefaults, Image, Version and ImagePullPolicy are
\* non-empty: the fixed default where the field was empty before the call,
\* the previous value where it was not.
C5_FieldDefaults ==
  (Called /\ err = ErrNil) =>
    /\ mm.Spec.Image # EmptyStr
    /\ mm.Spec.Version # EmptyStr
    /\ mm.Spec.ImagePullPolicy # ""
    /\ mm.Spec.Image =
         IF old.Spec.Image = EmptyStr THEN LitEnterpriseImage ELSE old.Spec.Image
    /\ mm.Spec.Version =
         IF old.Spec.Version = EmptyStr THEN LitVersion ELSE old.Spec.Version
    /\ mm.Spec.ImagePullPolicy =
         IF old.Spec.ImagePullPolicy = "" THEN "IfNotPresent"
         ELSE old.Spec.ImagePullPolicy

\* C5 witness: a successful call on a spec with an empty Image and a
\* user-set Version and pull policy.
C5_Witness ==
  /\ ret.op = "SetDefaults"
  /\ err = ErrNil
  /\ old.Spec.Image = EmptyStr
  /\ old.Spec.Version # EmptyStr
  /\ old.Spec.ImagePullPolicy = "Always"
  /\ mm.Spec.Image = LitEnterpriseImage
  /\ mm.Spec.Version = old.Spec.Version

\* C6: MattermostLabels(name) is MattermostSelectorLabels(name) with
\* ResourceLabels overlaid last: every key of ResourceLabels carries the
\* user's value, every other reserved key its selector value, and with no
\* ResourceLabels the result is the selector map.
C6_FullLabelsOverlay ==
  ret.op = "MattermostLabels" =>
    LET sel == MattermostSelectorLabels(ret.name)
        usr == mm.Spec.ResourceLabels
    IN /\ DOMAIN ret.val = (DOMAIN sel) \cup (DOMAIN usr)
       /\ \A k \in DOMAIN usr : ret.val[k] = usr[k]
       /\ \A k \in (DOMAIN sel) \ (DOMAIN usr) : ret.val[k] = sel[k]
       /\ (DOMAIN usr = {}) => ret.val = sel

\* C6 witness: the labels were derived for ResourceLabels={"app":"custom"}
\* and carry "app"="custom".
C6_Witness ==
  /\ ret.op = "MattermostLabels"
  /\ DOMAIN mm.Spec.ResourceLabels = {"app"}
  /\ mm.Spec.ResourceLabels["app"] = "custom"
  /\ ret.val["app"] = "custom"
  /\ ret.val["installation.mattermost.com/installation"] = ret.name

\* C7: MattermostSelectorLabels(name) has exactly three entries, the resource
\* label key and the cluster label key mapped to name and "app" mapped to
\* "mattermost", on every pass and whatever the spec holds.
C7_SelectorLabelsExact ==
  ret.op = "MattermostSelectorLabels" =>
    /\ DOMAIN ret.val = {"installation.mattermost.com/resource",
                         "installation.mattermost.com/installation", "app"}
    /\ Cardinality(DOMAIN ret.val) = 3
    /\ ret.val["installation.mattermost.com/resource"] = ret.name
    /\ ret.val["installation.mattermost.com/installation"] = ret.name
    /\ ret.val["app"] = "mattermost"

\* C7 witness: the selector labels of team-a were derived after a reconcile
\* pass, for a spec whose ResourceLabels collide with a reserved key.
C7_Witness ==
  /\ ret.op = "MattermostSelectorLabels"
  /\ ret.name = "team-a"
  /\ Called
  /\ "app" \in DOMAIN mm.Spec.ResourceLabels
  /\ ret.val["app"] = "mattermost"

\* The result the claim gives for a lookup of name n in the list cs.
FirstMatch(cs, n) ==
  LET M == {i \in 1..Len(cs) : cs[i].Name = n}
  IN IF M = {} THEN Nil
     ELSE <<cs[CHOOSE i \in M : \A j \in M : i <= j]>>

\* C8: getContainerByName returns nil for an empty list and for a list with
\* no container of the given name, and otherwise the container at the lowest
\* index with that name; getDeploymentContainerByName gives the same on the
\* deployment's pod-template container list.
C8_FirstMatchOrNil ==
  /\ ret.op = "getContainerByName" =>
       /\ ret.val = FirstMatch(ret.containers, ret.containerName)
       /\ ret.containers = << >> => ret.val = Nil
  /\ ret.op = "getDeploymentContainerByName" =>
       ret.val = FirstMatch(ret.deployment.Spec.Template.Spec.Containers,
                            ret.containerName)

\* C8 witness: a lookup in a list whose second and third containers share
\* the name and differ otherwise returned the second.
C8_Witness ==
  /\ ret.op = "getContainerByName"
  /\ Len(ret.containers) = 3
  /\ ret.containers[1].Name # ret.containerName
  /\ ret.containers[2].Name = ret.containerName
  /\ ret.containers[3].Name = ret.containerName
  /\ ret.containers[2] # ret.containers[3]
  /\ ret.val = <<ret.containers[2]>>

\* Version holds "sha256:" at some position.
HasDigest(v) ==
  \E i \in 1..Len(v) : i + 6 <= Len(v) /\ SubSeq(v, i, i + 6) = LitSha

\* C9: GetImageName is Image, then "@" when Version contains "sha256:"
\* anywhere and ":" otherwise, then Version.
C9_ImageName ==
  ret.op = "GetImageName" =>
    /\ ret.val = mm.Spec.Image
                   \o (IF HasDigest(mm.Spec.Version) THEN <<"@">> ELSE <<":">>)
                   \o mm.Spec.Version
    /\ (mm.Spec.Image = LitEnterpriseImage /\ mm.Spec.Version = LitVersion) =>
         ret.val = LitEnterpriseImage \o <<":">> \o LitVersion

\* C9 witness: the image name was built for a Version holding "sha256:"
\* after its first character, and is joined with "@".
C9_Witness ==
  /\ ret.op = "GetImageName"
  /\ mm.Spec.Version = <<"x">> \o LitSha
  /\ mm.Spec.Image = LitEnterpriseImage
  /\ ret.val = LitEnterpriseImage \o <<"@", "x">> \o LitSha

\* C10: a failing SetDefaults leaves every field of the spec as it was; a
\* successful one leaves Ingress, IngressName, IngressAnnotations,
\* UseIngressTLS and ResourceLabels as they were, and with them the resolved
\* ingress view and the derived label maps.
C10_Frame ==
  Called =>
    /\ err # ErrNil => mm = old
    /\ mm.Spec.Ingress = old.Spec.Ingress
    /\ mm.Spec.IngressName = old.Spec.IngressName
    /\ mm.Spec.IngressAnnotations = old.Spec.IngressAnnotations
    /\ mm.Spec.UseIngressTLS = old.Spec.UseIngressTLS
    /\ mm.Spec.ResourceLabels = old.Spec.ResourceLabels
    /\ IngressEnabled(mm) = IngressEnabled(old)
    /\ GetIngressHost(mm) = GetIngressHost(old)
    /\ GetIngresAnnotations(mm) = GetIngresAnnotations(old)
    /\ GetIngressTLSSecret(mm) = GetIngressTLSSecret(old)
    /\ \A name \in Names : MattermostLabels(mm, name) = MattermostLabels(old, name)

\* C10 witness: SetDefaults failed on a spec with no Image, Version, pull
\* policy or file-store size, and they are still empty.
C10_Witness ==
  /\ ret.op = "SetDefaults"
  /\ err = ErrIngressHost
  /\ mm.Spec.Image = EmptyStr
  /\ mm.Spec.Version = EmptyStr
  /\ mm.Spec.ImagePullPolicy = ""
  /\ mm.Spec.FileStore.StorageSize = ""
  /\ mm.Spec.Database.Type = ""

====
